---- MODULE Spec2Model ----
(***************************************************************************)
(* State-machine model of model-MNIST-cv.py: the semi-supervised DCGAN     *)
(* training loop (DCGAN.train), the network construction (DCGAN.__init__)  *)
(* and the stratified k-fold cross-validation driver (__main__).           *)
(*                                                                         *)
(* Images and network parameters are abstract: a real image is its index   *)
(* in the training array, a generated image carries the generator          *)
(* parameters that produced it, and a parameter set is the instance that   *)
(* initialised it together with the number of gradient updates applied.    *)
(* Metric values are integers in units of 1/4 so that 0.5 * (a + b) is     *)
(* exact on the values drawn.                                              *)
(***************************************************************************)
EXTENDS Integers, Sequences, FiniteSets

VARIABLES pc, inp, drv, net, loc, calls

vars == <<pc, inp, drv, net, loc, calls>>

(* ------------------------------ bounds -------------------------------- *)

\* number of samples of the training array
NumSamples == 4
\* the n_splits handed to load_data_kfold
SplitValues == {2, 3}
\* the batch_size handed to train
BatchSizes == 1..4
\* epochs handed to train
Epochs == 2
\* save_interval handed to train
SaveInterval == 2

\* label values occurring in the training array
LabelValues == {0, 3}

(* ------------------------- program constants -------------------------- *)

num_classes == 10

Indices == 1..NumSamples

\* The label arrays of the training set, up to a renaming of the samples: the
\* samples of a class are taken to be adjacent.
LabelArrays ==
    {y \in [Indices -> LabelValues] :
        \A i \in Indices : \A j \in Indices : i < j => y[i] <= y[j]}

(* ------------------------------ helpers ------------------------------- *)

RECURSIVE SortedSeq(_)
\* numpy index arrays are ascending: the ascending sequence of a set of indices
SortedSeq(S) ==
    IF S = {} THEN <<>>
    ELSE LET m == CHOOSE x \in S : \A y \in S : x <= y
         IN <<m>> \o SortedSeq(S \ {m})

\* keras.utils.to_categorical for one label: a vector of length n, 1 at position label
to_categorical(label, n) == [j \in 1..n |-> IF j - 1 = label THEN 1 ELSE 0]

\* np.ones((n, 1)) / np.zeros((n, 1))
Ones(n) == [j \in 1..n |-> 1]
Zeros(n) == [j \in 1..n |-> 0]

(* -------------------- StratifiedKFold(n_splits=k) --------------------- *)

ClassMembers(y, c) == {i \in DOMAIN y : y[i] = c}
ClassesOf(y) == {y[i] : i \in DOMAIN y}

\* KFold's fold sizes over n items: n // k, the first n % k folds one more
KFoldSize(n, k, f) == (n \div k) + (IF f < n % k THEN 1 ELSE 0)

\* The test-fold assignments the shuffled per-class KFold can produce: a class
\* with n >= k members puts KFoldSize(n, k, f) of them in fold f; a class with
\* fewer than k members puts its members in distinct folds.
StratifiedTestFolds(y, k) ==
    {tf \in [DOMAIN y -> 0..(k - 1)] :
        \A c \in ClassesOf(y) :
            LET n == Cardinality(ClassMembers(y, c))
            IN \A f \in 0..(k - 1) :
                 LET inFold == Cardinality({i \in ClassMembers(y, c) : tf[i] = f})
                 IN IF n >= k THEN inFold = KFoldSize(n, k, f) ELSE inFold <= 1}

\* split(): fold f tests the indices assigned to f and trains on the others
MakeFolds(tf, k) ==
    [f \in 1..k |->
        [train |-> {i \in DOMAIN tf : tf[i] # f - 1},
         val   |-> {i \in DOMAIN tf : tf[i] = f - 1}]]

\* StratifiedKFold raises when n_splits exceeds the size of every class
SplitRaises(y, k) ==
    \A c \in ClassesOf(y) : k > Cardinality(ClassMembers(y, c))

(* --------------------------- DCGAN.__init__ --------------------------- *)

\* compile(): the train function of a compiled model updates the weights of
\* those of its networks that are trainable when it is compiled
CollectTrainable(networks, trainable) == {w \in networks : trainable[w]}

\* discriminator.trainable as set before the combined model is compiled
FrozenFlagMutant == TRUE
FrozenFlag == FALSE

EmptyHistory == [D_loss |-> <<>>, D_acc |-> <<>>, G_loss |-> <<>>, G_acc |-> <<>>]

\* A DCGAN object as __init__ leaves it: empty training_history, freshly
\* initialised discriminator and generator, the discriminator compiled while
\* trainable, the combined model compiled after discriminator.trainable = False
NewDCGAN(id) ==
    [id |-> id,
     num_classes |-> num_classes,
     training_history |-> EmptyHistory,
     discriminator |-> [init |-> id, updates |-> 0],
     generator |-> [init |-> id, updates |-> 0],
     discriminator_trains |->
         CollectTrainable({"discriminator"},
                          [discriminator |-> TRUE, generator |-> TRUE]),
     combined_trains |->
         CollectTrainable({"generator", "discriminator"},
                          [discriminator |-> FrozenFlag, generator |-> TRUE])]

\* no DCGAN object exists before the first fold
NoDCGAN ==
    [id |-> 0,
     num_classes |-> num_classes,
     training_history |-> EmptyHistory,
     discriminator |-> [init |-> 0, updates |-> 0],
     generator |-> [init |-> 0, updates |-> 0],
     discriminator_trains |-> {},
     combined_trains |-> {}]

\* one optimizer step of a compiled model, seen from network w: its parameters
\* receive the update when the model's train function holds them
Step(params, w, trains) ==
    IF w \in trains THEN [params EXCEPT !.updates = @ + 1] ELSE params

(* ----------------------------- DCGAN.train ---------------------------- *)

\* half_batch = int(batch_size / 2)
HalfBatchMutant(batch_size) == batch_size
HalfBatch(batch_size) == batch_size \div 2

\* a weight is the exact quotient num / den
Frac(num, den) == [num |-> num, den |-> den]

\* cw2: num_classes / half_batch for the digit classes, 1 / half_batch for the
\* sentinel class num_classes
ClassWeightsMutant(n, half_batch) ==
    [c \in 0..n |-> Frac(n, half_batch)]
ClassWeights(n, half_batch) ==
    [c \in 0..n |-> IF c < n THEN Frac(n, half_batch) ELSE Frac(1, half_batch)]

\* the results train_on_batch of the discriminator can return on the real and
\* on the generated half batch:
\* [loss, validity loss, class loss, validity accuracy, class accuracy]
DRealResults == {<<4, 4, 4, 2, 0>>, <<2, 2, 2, 4, 2>>}
DFakeResults == {<<6, 8, 4, 0, 4>>}
\* the losses train_on_batch of the combined model can return
GStepResults == {6}
\* the accuracies discriminator.evaluate can return (scores[3])
EvalResults == {3}

\* what a training step returns, with the compiled model that produced it
Result(model, out) == [by |-> model, out |-> out]
NoResult == Result("none", <<>>)

\* 0.5 * np.add(a, b)
HalfSum(a, b) ==
    Result(a.by, [j \in DOMAIN a.out |-> (a.out[j] + b.out[j]) \div 2])

LocInit ==
    [half_batch |-> 0, cw1 |-> <<>>, cw2 |-> <<>>, epoch |-> 0,
     idx |-> <<>>, imgs |-> <<>>, gen_imgs |-> <<>>,
     valid |-> <<>>, fake |-> <<>>, labels |-> <<>>, fake_labels |-> <<>>,
     d_loss_real |-> NoResult, d_loss_fake |-> NoResult, d_loss |-> NoResult,
     g_loss |-> NoResult]

\* The next iteration of the epoch loop: every local but half_batch and the
\* class weights is assigned anew before it is read, so the model drops the
\* values of the iteration that ended.
NextEpoch(l) ==
    [LocInit EXCEPT !.half_batch = l.half_batch, !.cw1 = l.cw1, !.cw2 = l.cw2,
                    !.epoch = l.epoch + 1]

\* labels of the images the discriminator is trained on as real
RealLabels(y_train_cv, idx, n) ==
    [j \in DOMAIN idx |-> to_categorical(y_train_cv[idx[j]], n + 1)]

\* labels of the generated images: np.full((half_batch, 1), num_classes)
FakeLabelsMutant(half_batch, n) ==
    [j \in 1..half_batch |-> to_categorical(n - 1, n + 1)]
FakeLabels(half_batch, n) ==
    [j \in 1..half_batch |-> to_categorical(n, n + 1)]

\* the four appends to training_history; every value keeps the step that
\* produced it
AppendHistoryMutant(h, d_loss, g_loss) ==
    [D_loss |-> <<Result(d_loss.by, d_loss.out[1])>>,
     D_acc  |-> <<Result(d_loss.by, 100 * d_loss.out[4])>>,
     G_loss |-> <<g_loss>>,
     G_acc  |-> <<Result(d_loss.by, 100 * d_loss.out[5])>>]
AppendHistory(h, d_loss, g_loss) ==
    [D_loss |-> Append(h.D_loss, Result(d_loss.by, d_loss.out[1])),
     D_acc  |-> Append(h.D_acc, Result(d_loss.by, 100 * d_loss.out[4])),
     G_loss |-> Append(h.G_loss, g_loss),
     G_acc  |-> Append(h.G_acc, Result(d_loss.by, 100 * d_loss.out[5]))]

\* if epoch % save_interval == 0
SaveDueMutant(epoch, save_interval) == (epoch + 1) % save_interval = 0
SaveDue(epoch, save_interval) == epoch % save_interval = 0

(* ------------------------------ __main__ ------------------------------ *)

\* X_train[train_idx], y_train[train_idx] / X_train[val_idx], y_train[val_idx]
SelectFoldMutant(fold) == [train |-> SortedSeq(fold.val), val |-> SortedSeq(fold.val)]
SelectFold(fold) == [train |-> SortedSeq(fold.train), val |-> SortedSeq(fold.val)]

\* dcgan = DCGAN() inside the fold loop
ConstructMutant(old, id) == IF old.id = 0 THEN NewDCGAN(id) ELSE old
Construct(old, id) == NewDCGAN(id)

(* ------------------------------- state -------------------------------- *)

DrvInit ==
    [folds |-> <<>>, fold_number |-> 0, cv |-> [train |-> <<>>, val |-> <<>>],
     kfold_scores |-> <<>>, raised |-> "none"]

Init ==
    /\ pc = "load"
    /\ inp \in [k : SplitValues,
                y_train : LabelArrays,
                batch_size : BatchSizes]
    /\ drv = DrvInit
    /\ net = NoDCGAN
    /\ loc = LocInit
    /\ calls = <<>>

\* a real image is the index of its sample; a generated image carries the
\* generator parameters that produced it
RealImage(i) == [prov |-> "real", of |-> i]
GeneratedImage(params) == [prov |-> "generated", of |-> params.updates]

Call(op, x, valid, class) == [op |-> op, x |-> x, valid |-> valid, class |-> class]

(* ------------------------------ actions ------------------------------- *)

\* load_data_kfold(k): the stratified split raises, or returns the folds
LoadDataKFold ==
    /\ pc = "load"
    /\ IF SplitRaises(inp.y_train, inp.k)
       THEN /\ pc' = "error"
            /\ drv' = [drv EXCEPT !.raised = "ValueError"]
       ELSE /\ \E tf \in StratifiedTestFolds(inp.y_train, inp.k) :
                 drv' = [drv EXCEPT !.folds = MakeFolds(tf, inp.k)]
            /\ pc' = "fold_loop"
    /\ UNCHANGED <<inp, net, loc, calls>>

\* for fold_number, (train_idx, val_idx) in enumerate(folds): select the fold's
\* partitions, or leave the loop
FoldLoop ==
    /\ pc = "fold_loop"
    /\ IF drv.fold_number < Len(drv.folds)
       THEN /\ drv' = [drv EXCEPT !.cv = SelectFold(drv.folds[drv.fold_number + 1])]
            /\ pc' = "construct"
       ELSE /\ pc' = "report"
            /\ drv' = drv
    /\ UNCHANGED <<inp, net, loc, calls>>

\* dcgan = DCGAN()
ConstructDCGAN ==
    /\ pc = "construct"
    /\ net' = Construct(net, drv.fold_number + 1)
    /\ pc' = "train_init"
    /\ UNCHANGED <<inp, drv, loc, calls>>

\* train(): half_batch and the class weights; 1 / half_batch raises for
\* half_batch = 0
TrainInit ==
    /\ pc = "train_init"
    /\ LET half_batch == HalfBatch(inp.batch_size)
       IN IF half_batch = 0
          THEN /\ pc' = "error"
               /\ drv' = [drv EXCEPT !.raised = "ZeroDivisionError"]
               /\ loc' = [LocInit EXCEPT !.cw1 = <<1, 1>>]
          ELSE /\ pc' = "epoch_loop"
               /\ drv' = drv
               /\ loc' = [LocInit EXCEPT !.half_batch = half_batch,
                                         !.cw1 = <<1, 1>>,
                                         !.cw2 = ClassWeights(net.num_classes, half_batch)]
    /\ calls' = <<>>
    /\ UNCHANGED <<inp, net>>

\* for epoch in range(epochs); when the loop ends train returns and its
\* locals are gone
EpochLoop ==
    /\ pc = "epoch_loop"
    /\ IF loc.epoch < Epochs
       THEN /\ pc' = "sample"
            /\ loc' = loc
       ELSE /\ pc' = "evaluate"
            /\ loc' = LocInit
    /\ calls' = <<>>
    /\ UNCHANGED <<inp, drv, net>>

\* the half batch of real images, the generated half batch and their targets
Sample ==
    /\ pc = "sample"
    /\ \E idx \in [1..loc.half_batch -> 1..Len(drv.cv.train)] :
         loc' = [loc EXCEPT
                   !.idx = idx,
                   !.imgs = [j \in 1..loc.half_batch |-> RealImage(drv.cv.train[idx[j]])],
                   !.gen_imgs = [j \in 1..loc.half_batch |-> GeneratedImage(net.generator)],
                   !.valid = Ones(loc.half_batch),
                   !.fake = Zeros(loc.half_batch),
                   !.labels = RealLabels([j \in 1..Len(drv.cv.train) |->
                                             inp.y_train[drv.cv.train[j]]],
                                         idx, net.num_classes),
                   !.fake_labels = FakeLabels(loc.half_batch, net.num_classes)]
    /\ pc' = "d_real"
    /\ UNCHANGED <<inp, drv, net, calls>>

\* d_loss_real = discriminator.train_on_batch(imgs, [valid, labels])
DTrainReal ==
    /\ pc = "d_real"
    /\ \E out \in DRealResults :
         /\ net' = [net EXCEPT !.discriminator =
                       Step(@, "discriminator", net.discriminator_trains)]
         /\ loc' = [loc EXCEPT !.d_loss_real = Result("discriminator", out)]
    /\ calls' = Append(calls, Call("discriminator", loc.imgs, loc.valid, loc.labels))
    /\ pc' = "d_fake"
    /\ UNCHANGED <<inp, drv>>

\* d_loss_fake = discriminator.train_on_batch(gen_imgs, [fake, fake_labels]);
\* d_loss = 0.5 * np.add(d_loss_real, d_loss_fake)
DTrainFake ==
    /\ pc = "d_fake"
    /\ \E out \in DFakeResults :
         /\ net' = [net EXCEPT !.discriminator =
                       Step(@, "discriminator", net.discriminator_trains)]
         /\ loc' = [loc EXCEPT
                      !.d_loss_fake = Result("discriminator", out),
                      !.d_loss = HalfSum(loc.d_loss_real, Result("discriminator", out))]
    /\ calls' = Append(calls, Call("discriminator", loc.gen_imgs, loc.fake, loc.fake_labels))
    /\ pc' = "g_train"
    /\ UNCHANGED <<inp, drv>>

\* g_loss = combined.train_on_batch(noise, validity) on batch_size latent vectors
GTrain ==
    /\ pc = "g_train"
    /\ \E out \in GStepResults :
         /\ net' = [net EXCEPT
                      !.generator = Step(@, "generator", net.combined_trains),
                      !.discriminator = Step(@, "discriminator", net.combined_trains)]
         /\ loc' = [loc EXCEPT !.g_loss = Result("combined", out)]
    /\ calls' = Append(calls, Call("combined",
                                   [j \in 1..inp.batch_size |-> [prov |-> "noise", of |-> 0]],
                                   Ones(inp.batch_size), <<>>))
    /\ pc' = "append"
    /\ UNCHANGED <<inp, drv>>

\* the appends to training_history
AppendMetrics ==
    /\ pc = "append"
    /\ net' = [net EXCEPT !.training_history = AppendHistory(@, loc.d_loss, loc.g_loss)]
    /\ calls' = Append(calls, Call("history", <<>>, <<>>, <<>>))
    /\ pc' = "save_check"
    /\ UNCHANGED <<inp, drv, loc>>

\* if epoch % save_interval == 0: save_imgs(epoch); then the next epoch
SaveCheck ==
    /\ pc = "save_check"
    /\ IF SaveDue(loc.epoch, SaveInterval)
       THEN /\ pc' = "save_imgs"
            /\ loc' = loc
       ELSE /\ pc' = "epoch_loop"
            /\ loc' = NextEpoch(loc)
    /\ UNCHANGED <<inp, drv, net, calls>>

\* save_imgs(epoch): generator.predict on the latent vectors of the grid and
\* a figure; one image stands for the grid, all being of the same generator
SaveImgs ==
    /\ pc = "save_imgs"
    /\ calls' = Append(calls, Call("save_imgs",
                                   [j \in 1..1 |-> GeneratedImage(net.generator)],
                                   <<>>, <<>>))
    /\ loc' = NextEpoch(loc)
    /\ pc' = "epoch_loop"
    /\ UNCHANGED <<inp, drv, net>>

\* _, acc = dcgan.evaluate_discriminator(X_valid_cv, y_valid_cv);
\* kfold_scores.append(acc)
Evaluate ==
    /\ pc = "evaluate"
    /\ \E score \in EvalResults :
         drv' = [drv EXCEPT !.kfold_scores = Append(@, 100 * score),
                            !.fold_number = @ + 1]
    /\ pc' = "fold_loop"
    /\ UNCHANGED <<inp, net, loc, calls>>

\* the mean and deviation of kfold_scores are printed
Report ==
    /\ pc = "report"
    /\ pc' = "plot"
    /\ UNCHANGED <<inp, drv, net, loc, calls>>

\* dcgan.plot_training_history() reads the four series
PlotTrainingHistory ==
    /\ pc = "plot"
    /\ pc' = "predict"
    /\ UNCHANGED <<inp, drv, net, loc, calls>>

\* dcgan.predict(X_test, y_test): discriminator.predict and reports
Predict ==
    /\ pc = "predict"
    /\ pc' = "save_model"
    /\ UNCHANGED <<inp, drv, net, loc, calls>>

\* dcgan.save_model() writes the three models
SaveModel ==
    /\ pc = "save_model"
    /\ pc' = "done"
    /\ UNCHANGED <<inp, drv, net, loc, calls>>

Next ==
    \/ LoadDataKFold
    \/ FoldLoop
    \/ ConstructDCGAN
    \/ TrainInit
    \/ EpochLoop
    \/ Sample
    \/ DTrainReal
    \/ DTrainFake
    \/ GTrain
    \/ AppendMetrics
    \/ SaveCheck
    \/ SaveImgs
    \/ Evaluate
    \/ Report
    \/ PlotTrainingHistory
    \/ Predict
    \/ SaveModel

Spec == Init /\ [][Next]_vars

(* ---------------------------- properties ------------------------------ *)

\* product and equality of exact quotients
FracMul(a, b) == Frac(a.num * b.num, a.den * b.den)
FracEq(a, b) == a.num * b.den = b.num * a.den

History == net.training_history
InEpoch == {"sample", "d_real", "d_fake", "g_train", "append", "save_check", "save_imgs"}
StepsMade == {"append", "save_check", "save_imgs"}
DCalls == SelectSeq(calls, LAMBDA c : c.op = "discriminator")
GCalls == SelectSeq(calls, LAMBDA c : c.op = "combined")
AllOf(x, prov) == \A j \in DOMAIN x : x[j].prov = prov
\* v is the vector of length n with a single 1, at position label (from 0)
OneHotAt(v, n, label) ==
    /\ DOMAIN v = 1..n
    /\ \A j \in 1..n : v[j] = (IF j = label + 1 THEN 1 ELSE 0)
SomeClassBelow(k) ==
    \E c \in ClassesOf(inp.y_train) : Cardinality(ClassMembers(inp.y_train, c)) < k
EveryClassAtLeast(k) ==
    \A c \in ClassesOf(inp.y_train) : Cardinality(ClassMembers(inp.y_train, c)) >= k
Range(q) == {q[j] : j \in DOMAIN q}

\* C1: for an even batch_size B, once the training steps of an epoch are made
\* the discriminator was trained exactly twice, on B/2 real and then on B/2
\* generated images, and the combined model exactly once, on B latent vectors.
C1_HalfBatchSteps ==
    (inp.batch_size % 2 = 0 /\ pc \in StepsMade) =>
        /\ 2 * loc.half_batch = inp.batch_size
        /\ Len(DCalls) = 2
        /\ 2 * Len(DCalls[1].x) = inp.batch_size /\ AllOf(DCalls[1].x, "real")
        /\ 2 * Len(DCalls[2].x) = inp.batch_size /\ AllOf(DCalls[2].x, "generated")
        /\ Len(GCalls) = 1
        /\ Len(GCalls[1].x) = inp.batch_size /\ AllOf(GCalls[1].x, "noise")

C1_Witness ==
    /\ pc = "save_check" /\ inp.batch_size = 4 /\ loc.epoch = 1
    /\ Len(DCalls) = 2 /\ Len(DCalls[1].x) = 2

\* the weighted mass of count samples of weight w
Mass(w, count) == FracMul(w, count)
RealWeight == loc.cw2[0]
SentinelWeight == loc.cw2[num_classes]
\* the digit classes all have the weight of class 0
DigitWeightsEqual == \A c \in 0..(num_classes - 1) : loc.cw2[c] = RealWeight

\* C2 as stated: weight(sentinel) * half_batch equals
\* weight(real class) * (half_batch / num_classes) * num_classes.
C2_AsStated ==
    loc.half_batch >= 1 =>
        /\ DigitWeightsEqual
        /\ FracEq(Mass(SentinelWeight, Frac(loc.half_batch, 1)),
                  FracMul(Mass(RealWeight, Frac(loc.half_batch, num_classes)),
                          Frac(num_classes, 1)))

\* C2: weight(sentinel) * half_batch equals weight(real class) *
\* (half_batch / num_classes), both being 1: the weighted mass of the generated
\* half equals that of one real class, and the real half weighs num_classes
\* times the generated half.
C2_PerClassMass ==
    loc.half_batch >= 1 =>
        /\ DigitWeightsEqual
        /\ FracEq(Mass(SentinelWeight, Frac(loc.half_batch, 1)),
                  Mass(RealWeight, Frac(loc.half_batch, num_classes)))
        /\ FracEq(Mass(SentinelWeight, Frac(loc.half_batch, 1)), Frac(1, 1))
        /\ FracEq(FracMul(Mass(RealWeight, Frac(loc.half_batch, num_classes)),
                          Frac(num_classes, 1)),
                  FracMul(Frac(num_classes, 1),
                          Mass(SentinelWeight, Frac(loc.half_batch, 1))))

C2_Witness ==
    /\ pc = "d_real" /\ loc.half_batch = 2
    /\ loc.cw2[num_classes] = Frac(1, 2) /\ loc.cw2[0] = Frac(num_classes, 2)

C4_FoldsPartition ==
    (EveryClassAtLeast(inp.k) /\ pc \notin {"load", "error"}) =>
        /\ Len(drv.folds) = inp.k
        /\ \A f \in 1..inp.k : \A g \in 1..inp.k :
               f # g => drv.folds[f].val \cap drv.folds[g].val = {}
        /\ UNION {drv.folds[f].val : f \in 1..inp.k} = Indices
        /\ \A f \in 1..inp.k :
               /\ drv.folds[f].train \cap drv.folds[f].val = {}
               /\ drv.folds[f].train \cup drv.folds[f].val = Indices
        /\ pc \in InEpoch =>
               /\ Range(drv.cv.train) = drv.folds[drv.fold_number + 1].train
               /\ Range(drv.cv.val) = drv.folds[drv.fold_number + 1].val
               /\ Range(drv.cv.train) \cap Range(drv.cv.val) = {}

C4_Witness ==
    /\ pc = "sample" /\ inp.k = 2 /\ drv.fold_number = 1
    /\ Cardinality(ClassesOf(inp.y_train)) = 2 /\ EveryClassAtLeast(2)
    /\ Len(drv.cv.val) = 2

\* C5: every discriminator training step is on a batch of one provenance; a
\* real batch has validity target 1 and the one-hot vector of length
\* num_classes + 1 at each sample's own label, a generated batch has validity
\* target 0 and the one-hot vector at the sentinel index num_classes.
C5_DiscriminatorTargets ==
    \A i \in 1..Len(DCalls) :
        LET c == DCalls[i]
        IN /\ DOMAIN c.valid = DOMAIN c.x /\ DOMAIN c.class = DOMAIN c.x
           /\ \/ /\ AllOf(c.x, "real")
                 /\ \A j \in DOMAIN c.x :
                      /\ c.valid[j] = 1
                      /\ inp.y_train[c.x[j].of] \in 0..(num_classes - 1)
                      /\ OneHotAt(c.class[j], num_classes + 1, inp.y_train[c.x[j].of])
              \/ /\ AllOf(c.x, "generated")
                 /\ \A j \in DOMAIN c.x :
                      /\ c.valid[j] = 0
                      /\ OneHotAt(c.class[j], num_classes + 1, num_classes)

C5_Witness ==
    /\ pc = "g_train" /\ Len(DCalls) = 2 /\ loc.half_batch = 2
    /\ inp.y_train[DCalls[1].x[1].of] = 3 /\ inp.y_train[DCalls[1].x[2].of] = 0
    /\ DCalls[1].class[1][4] = 1 /\ DCalls[2].class[1][11] = 1

\* C6: when some class has fewer than k members, no network is built and no
\* training step of any fold is executed.
C6_FailFast ==
    SomeClassBelow(inp.k) => (net.id = 0 /\ calls = <<>>)

\* C7: each fold trains a DCGAN constructed for it: when its training starts
\* the parameters are a new initialisation and the history is empty, the
\* parameters in use never come from another fold's instance, and one score
\* is appended per fold.
C7_FreshPerFold ==
    /\ (pc = "train_init" \/ (pc \in {"epoch_loop", "sample"} /\ loc.epoch = 0)) =>
           /\ net.id = drv.fold_number + 1
           /\ net.discriminator = [init |-> net.id, updates |-> 0]
           /\ net.generator = [init |-> net.id, updates |-> 0]
           /\ History = EmptyHistory
    /\ pc \in InEpoch =>
           /\ net.id = drv.fold_number + 1
           /\ net.discriminator.init = net.id /\ net.generator.init = net.id
           /\ Len(History.D_loss) <= loc.epoch + 1
    /\ Len(drv.kfold_scores) = drv.fold_number
    /\ pc \in {"report", "plot", "predict", "save_model", "done"} =>
           Len(drv.kfold_scores) = inp.k

C7_Witness ==
    /\ pc = "sample" /\ loc.epoch = 0 /\ drv.fold_number = 2
    /\ Len(drv.kfold_scores) = 2 /\ net.id = 3

\* the steps of an epoch in the order of the loop body
EpochOrder(epoch) ==
    <<"discriminator", "discriminator", "combined", "history">>
        \o (IF epoch % SaveInterval = 0 THEN <<"save_imgs">> ELSE <<>>)
Ops == [j \in DOMAIN calls |-> calls[j].op]
\* the number of steps of the epoch made when control is at a position
MadeAt(at) ==
    CASE at \in {"sample", "d_real"} -> 0
      [] at = "d_fake" -> 1
      [] at = "g_train" -> 2
      [] at = "append" -> 3
      [] at = "save_check" -> 4
      [] at = "save_imgs" -> 4

\* C8: within an epoch the steps are made in the order real discriminator
\* step, generated discriminator step (on images of the generator as it was
\* before this epoch's update), generator step, append to the history, and
\* then the sample save exactly when epoch % save_interval = 0; an epoch
\* starts only after the append of the one before.
C8_EpochOrder ==
    /\ pc \in InEpoch =>
           /\ Ops = SubSeq(EpochOrder(loc.epoch), 1, MadeAt(pc))
           /\ Len(History.D_loss) = loc.epoch + (IF MadeAt(pc) = 4 THEN 1 ELSE 0)
           /\ pc = "save_imgs" => loc.epoch % SaveInterval = 0
           /\ Len(calls) >= 1 => AllOf(calls[1].x, "real")
           /\ Len(calls) >= 2 =>
                  /\ AllOf(calls[2].x, "generated")
                  /\ \A j \in DOMAIN calls[2].x : calls[2].x[j].of = loc.epoch
           /\ net.generator.updates = loc.epoch + (IF MadeAt(pc) >= 3 THEN 1 ELSE 0)
           /\ net.discriminator.updates = 2 * loc.epoch
                  + (IF MadeAt(pc) >= 2 THEN 2 ELSE MadeAt(pc))
    /\ (pc = "epoch_loop" /\ loc.epoch > 0) =>
           /\ Ops = EpochOrder(loc.epoch - 1)
           /\ Len(History.D_loss) = loc.epoch

C8_Witness ==
    /\ pc = "epoch_loop" /\ loc.epoch = 1
    /\ Ops = <<"discriminator", "discriminator", "combined", "history", "save_imgs">>
    /\ calls[5].x[1].of = 1 /\ calls[2].x[1].of = 0

\* the epochs of the current DCGAN's training that have appended their record
EpochsRecorded ==
    CASE pc \in {"load", "train_init"} -> 0
      [] pc = "error" -> 0
      [] pc \in {"epoch_loop", "sample", "d_real", "d_fake", "g_train", "append"} -> loc.epoch
      [] pc \in {"save_check", "save_imgs"} -> loc.epoch + 1
      [] pc \in {"fold_loop", "construct"} -> IF net.id = 0 THEN 0 ELSE Epochs
      [] OTHER -> Epochs
Series == {"D_loss", "D_acc", "G_loss", "G_acc"}

\* C9: the four series of training_history are empty on a new DCGAN, always
\* have the same length, the number of epochs recorded, grow by exactly one
\* entry each in the append step of an epoch, and no step of the same DCGAN
\* (train, evaluate_discriminator, save_imgs, predict) changes or removes an
\* entry.
C9_HistoryAppendOnly ==
    /\ [](\A n \in Series : Len(History[n]) = EpochsRecorded)
    /\ [][/\ net'.id # net.id => \A n \in Series : History'[n] = <<>>
          /\ (net'.id = net.id /\ pc = "append") =>
                 \A n \in Series :
                     /\ Len(History'[n]) = Len(History[n]) + 1
                     /\ SubSeq(History'[n], 1, Len(History[n])) = History[n]
          /\ (net'.id = net.id /\ pc # "append") => History' = History]_vars

C9_Witness ==
    /\ pc = "predict" /\ Len(History.D_loss) = Epochs /\ Len(History.G_acc) = Epochs
    /\ History.D_loss[1] # History.D_loss[2]

\* C10: the record of an epoch holds the discriminator loss and accuracy of
\* the averaged discriminator steps and the generator loss and the generator
\* accuracy of the generator step.
C10_MetricsFromOwnStep ==
    \A e \in 1..Len(History.G_acc) :
        /\ History.D_loss[e].by = "discriminator"
        /\ History.D_acc[e].by = "discriminator"
        /\ History.G_loss[e].by = "combined"
        /\ History.G_acc[e].by = "combined"

====
